---- MODULE Spec2Model ----
(***************************************************************************)
(* Model of the raycaster (src/unnamed/part_000): the key handlers, the    *)
(* main loop, Scene::Move, Player (fan of rays, CanMove/Rotate/Move,       *)
(* CalcRayHits), Ray::Intersect and View3D::Draw.                          *)
(*                                                                         *)
(* Numbers.  The program computes in doubles; the model computes the same  *)
(* expressions exactly, on integers that carry a fixed denominator:        *)
(*   - a direction component (a sin or cos) counts units of 1/Scale;       *)
(*   - a coordinate of the Player or of a Ray counts units of 1/PosDen,    *)
(*     PosDen = 2 * Scale, so that a step of 1/2 along a direction is a    *)
(*     whole number of units;                                              *)
(*   - da and dd are fractions [n, d] (-1/2, 0, 1/2);                      *)
(*   - an Angle counts angle units, UnitsPerDeg to the degree (the program *)
(*     stores radians; the unit is a linear rescaling in which every angle *)
(*     the program forms is a whole number);                               *)
(*   - tw, tr and the fields of a RayHit are fractions [n, d] in lowest    *)
(*     terms, d > 0.                                                       *)
(* Two results are rounded: sin and cos (to the nearest 1/Scale) and the   *)
(* distance of a RayHit (to the nearest 1/PosDen); everything else,        *)
(* Ray::Intersect included, is exact.                                      *)
(***************************************************************************)
EXTENDS Integers, Sequences, FiniteSets, TLC

\* ------------------------------------------------------------------ bounds
\* Number of rays in the fan (320 in the program).
NumRays == 4
\* Map size in map units (320 x 240 in the program's Scene).
MapWidth == 3
MapHeight == 3
\* Number of randomly placed interior walls (6 in the program).
NumInner == 2
\* Frames of the main loop that are explored.
MaxFrames == 2
\* Events SDL_PollEvent delivers in the frames explored.
MaxEvents == 2
\* Fixed-point resolution of sin/cos.
Scale == 100
\* Width and height of the display reported by SDL.
ScreenWidth == 1920
ScreenHeight == 1080

\* ------------------------------------------------------- program constants
view_angle == 60
map_width == 320
map_height == 240

\* -------------------------------------------------------------- arithmetic
Abs(a) == IF a < 0 THEN -a ELSE a

Min(a, b) == IF a < b THEN a ELSE b

RECURSIVE GCD(_, _)
GCD(a, b) == IF b = 0 THEN a ELSE GCD(b, a % b)

\* The fraction n/d (d # 0) in lowest terms, denominator positive.
Frac(n, d) ==
    LET g == GCD(Abs(n), Abs(d))
        s == IF d < 0 THEN -1 ELSE 1
    IN  [n |-> s * (n \div g), d |-> s * (d \div g)]

FLess(a, b) == a.n * b.d < b.n * a.d

\* Nearest integer to n/d, halves away from zero (round()), d > 0.
RoundDiv(n, d) ==
    IF n >= 0 THEN (2 * n + d) \div (2 * d) ELSE -((2 * (-n) + d) \div (2 * d))

\* int / int of C++ (truncation toward zero), b > 0.
IntDiv(a, b) == IF a >= 0 THEN a \div b ELSE -((-a) \div b)

\* Quotient and remainder of a * k by b (a, k >= 0, b > 0), one bit of k at
\* a time: the product itself may exceed TLC's integer range.
RECURSIVE MulDiv(_, _, _)
MulDiv(a, k, b) ==
    IF k = 0 THEN [q |-> 0, r |-> 0]
    ELSE LET h == MulDiv(a, k \div 2, b)
             t == 2 * h.r + (k % 2) * a
         IN  [q |-> 2 * h.q + t \div b, r |-> t % b]

\* ----------------------------------------------------------------- angles
\* Angle units per degree: the turn step (1/2 degree) is NumRays units and
\* the ray spacing view_angle/num_rays is 2 * view_angle units.
UnitsPerDeg == 2 * NumRays

FullCircle == 360 * UnitsPerDeg

\* Angle(double deg), deg a fraction of degrees.
AngleOfDeg(deg) == (deg.n * UnitsPerDeg) \div deg.d

\* Angle operator - (double deg)
AngleSubDeg(a, deg) == a - AngleOfDeg(deg)

\* Angle operator - (const Angle a)
AngleSub(a, b) == a - b

\* Angle operator += (double deg)
AngleAddDeg(a, deg) == a + AngleOfDeg(deg)

\* sin of p angle units, 0 <= p <= half a circle, in units of 1/Scale
\* (Bhaskara's rational approximation of the library sine: exact at
\* 0, 30, 90, 150 and 180 degrees, symmetric about 90 degrees).
SinHalf(p) ==
    LET q == UnitsPerDeg
        t == p * (180 * q - p)
    IN  RoundDiv(Scale * 4 * t, 40500 * q * q - t)

SinUnits(a) ==
    LET p == a % FullCircle
        half == 180 * UnitsPerDeg
    IN  IF p <= half THEN SinHalf(p) ELSE -SinHalf(p - half)

\* Sin(Angle), Cos(Angle), in units of 1/Scale
Sin(a) == SinUnits(a)

Cos(a) == SinUnits(a + 90 * UnitsPerDeg)

\* ---------------------------------------------------------------- Vector2
\* sqrt to the nearest integer
ISqrt(n) ==
    CHOOSE r \in 0..(2 * Scale) :
        (2 * r - 1) * (2 * r - 1) <= 4 * n /\ 4 * n < (2 * r + 1) * (2 * r + 1)

\* Vector2::Length, in units of 1/Scale
Length(v) == ISqrt(v.x * v.x + v.y * v.y)

\* Vector2::Normalize (operator /= by the length)
Normalize(v) ==
    LET len == Length(v)
    IN  [x |-> RoundDiv(v.x * Scale, len), y |-> RoundDiv(v.y * Scale, len)]

\* Vector2(Angle a)
Vector2OfAngle(a) == Normalize([x |-> Cos(a), y |-> Sin(a)])

\* The direction of every angle of the circle, computed once.
DirTable == [p \in 0..(FullCircle - 1) |-> Vector2OfAngle(p)]

Vector2(a) == DirTable[a % FullCircle]

\* ------------------------------------------------------------------ Mix/Map
\* Mix measured from the wrong end: end + (start - end) * t.
MixFromEnd(start, end, t) == Frac(end * t.d + (start - end) * t.n, t.d)

\* Mix(start, end, t) for integers start, end and a fraction t.
Mix(start, end, t) == Frac(start * t.d + (end - start) * t.n, t.d)

\* Map(x, in_min, in_max, out_min, out_max) converted to an integer (both
\* callers assign the result to an integer): x a fraction, the ranges
\* integers with in_min < in_max.  The value is
\*   out_min + (x - in_min) * (out_max - out_min) / (in_max - in_min)
\* and the conversion truncates it toward zero.
MapInt(x, in_min, in_max, out_min, out_max) ==
    LET a == x.n - in_min * x.d
        k == out_max - out_min
        s == IF (a < 0) = (k < 0) THEN 1 ELSE -1
        m == MulDiv(Abs(a), Abs(k), (in_max - in_min) * x.d)
        base == out_min + s * m.q
    IN  IF m.r = 0 THEN base
        ELSE IF s > 0 THEN (IF base >= 0 THEN base ELSE base + 1)
        ELSE (IF base >= 1 THEN base - 1 ELSE base)

\* -------------------------------------------------------------------- Wall
Wall(x1, y1, x2, y2) == [x1 |-> x1, y1 |-> y1, x2 |-> x2, y2 |-> y2]

\* --------------------------------------------------------------------- Ray
\* Coordinates count units of 1/PosDen.
PosDen == 2 * Scale

Coord(i) == i * PosDen

Ray(x, y, a) == [x |-> x, y |-> y, angle |-> a]

RayRotate(ray, da_) == [ray EXCEPT !.angle = AngleAddDeg(ray.angle, da_)]

RayMoveTo(ray, new_x, new_y) == [ray EXCEPT !.x = new_x, !.y = new_y]

\* Ray::Intersect accepting the far end point of the wall (tw <= 1).
IntersectClosedWall(ray, wall) ==
    LET dir == Vector2(ray.angle)
        nwx == wall.y2 - wall.y1
        nwy == wall.x1 - wall.x2
        nrx == dir.y
        nry == -dir.x
        den == nry * nwx - nrx * nwy
    IN  IF den = 0
        THEN [hit |-> FALSE, set |-> FALSE, tw |-> Frac(0, 1), tr |-> Frac(0, 1)]
        ELSE LET tw == Frac(-(nrx * (Coord(wall.x1) - ray.x)
                              + nry * (Coord(wall.y1) - ray.y)),
                            den * PosDen)
                 tr == Frac(-(nwy * (Coord(wall.y1) - ray.y)
                              + nwx * (Coord(wall.x1) - ray.x)) * Scale,
                            den * PosDen)
             IN  [hit |-> tw.n > 0 /\ ~FLess(Frac(1, 1), tw) /\ tr.n > 0,
                  set |-> TRUE, tw |-> tw, tr |-> tr]

\* Ray::Intersect without the test tr > 0: the line through the ray.
IntersectAnyDirection(ray, wall) ==
    LET dir == Vector2(ray.angle)
        nwx == wall.y2 - wall.y1
        nwy == wall.x1 - wall.x2
        nrx == dir.y
        nry == -dir.x
        den == nry * nwx - nrx * nwy
    IN  IF den = 0
        THEN [hit |-> FALSE, set |-> FALSE, tw |-> Frac(0, 1), tr |-> Frac(0, 1)]
        ELSE LET tw == Frac(-(nrx * (Coord(wall.x1) - ray.x)
                              + nry * (Coord(wall.y1) - ray.y)),
                            den * PosDen)
                 tr == Frac(-(nwy * (Coord(wall.y1) - ray.y)
                              + nwx * (Coord(wall.x1) - ray.x)) * Scale,
                            den * PosDen)
             IN  [hit |-> tw.n > 0 /\ FLess(tw, Frac(1, 1)),
                  set |-> TRUE, tw |-> tw, tr |-> tr]

\* Ray::Intersect.  hit is the returned bool; tw and tr are the out
\* parameters, which the code leaves unassigned when den == 0 (set = FALSE).
\* nrx, nry and den count units of 1/Scale, the differences wall - ray units
\* of 1/PosDen.
Intersect(ray, wall) ==
    LET dir == Vector2(ray.angle)
        nwx == wall.y2 - wall.y1
        nwy == wall.x1 - wall.x2
        nrx == dir.y
        nry == -dir.x
        den == nry * nwx - nrx * nwy
    IN  IF den = 0
        THEN [hit |-> FALSE, set |-> FALSE, tw |-> Frac(0, 1), tr |-> Frac(0, 1)]
        ELSE LET tw == Frac(-(nrx * (Coord(wall.x1) - ray.x)
                              + nry * (Coord(wall.y1) - ray.y)),
                            den * PosDen)
                 tr == Frac(-(nwy * (Coord(wall.y1) - ray.y)
                              + nwx * (Coord(wall.x1) - ray.x)) * Scale,
                            den * PosDen)
             IN  [hit |-> tw.n > 0 /\ FLess(tw, Frac(1, 1)) /\ tr.n > 0,
                  set |-> TRUE, tw |-> tw, tr |-> tr]

\* ------------------------------------------------------------------ Player
\* The loop of the constructor: rays i..NumRays-1, the next angle being a.
RECURSIVE FanFrom(_, _, _, _)
FanFrom(x, y, a, i) ==
    IF i >= NumRays THEN <<>>
    ELSE <<Ray(x, y, a)>>
         \o FanFrom(x, y, AngleAddDeg(a, [n |-> view_angle, d |-> NumRays]), i + 1)

\* Player::Player(x, y).  The constructor does not initialise heading; h0 is
\* the value the member happens to hold.
Player(x, y, h0) ==
    [x |-> Coord(x), y |-> Coord(y), heading |-> h0,
     rays |-> FanFrom(Coord(x), Coord(y),
                      AngleSubDeg(h0, [n |-> view_angle, d |-> 2]), 0)]

\* dir * dd in units of 1/PosDen, for a direction component c
Step(c, dd_) == (c * dd_.n * PosDen) \div (Scale * dd_.d)

\* Player::CanMove with the upper limits off by one (> for >=).
CanMoveOffByOne(p, dd_, mw, mh) ==
    LET dir == Vector2(p.heading)
        new_x == RoundDiv(p.x + Step(dir.x, dd_), PosDen)
        new_y == RoundDiv(p.y + Step(dir.y, dd_), PosDen)
    IN  IF new_x < 1 \/ new_y < 1 THEN FALSE
        ELSE IF new_x > mw - 1 \/ new_y > mh - 1 THEN FALSE
        ELSE TRUE

\* Player::CanMove
CanMove(p, dd_, mw, mh) ==
    LET dir == Vector2(p.heading)
        new_x == RoundDiv(p.x + Step(dir.x, dd_), PosDen)
        new_y == RoundDiv(p.y + Step(dir.y, dd_), PosDen)
    IN  IF new_x < 1 \/ new_y < 1 THEN FALSE
        ELSE IF new_x >= mw - 1 \/ new_y >= mh - 1 THEN FALSE
        ELSE TRUE

\* Player::Rotate turning the heading and leaving the rays.
PlayerRotateHeadingOnly(p, da_) ==
    [p EXCEPT !.heading = AngleAddDeg(p.heading, da_)]

\* Player::Rotate
PlayerRotate(p, da_) ==
    [p EXCEPT !.heading = AngleAddDeg(p.heading, da_),
              !.rays = [i \in 1..Len(p.rays) |-> RayRotate(p.rays[i], da_)]]

\* Player::Move
PlayerMove(p, dd_) ==
    LET dir == Vector2(p.heading)
        nx == p.x + Step(dir.x, dd_)
        ny == p.y + Step(dir.y, dd_)
    IN  [p EXCEPT !.x = nx, !.y = ny,
                  !.rays = [i \in 1..Len(p.rays) |-> RayMoveTo(p.rays[i], nx, ny)]]

\* The inner loop of CalcRayHits with <= for <: the last of equal hits wins.
RECURSIVE ScanWallsLastWins(_, _, _, _)
ScanWallsLastWins(ray, ws, j, best) ==
    IF j > Len(ws) THEN best
    ELSE LET r == Intersect(ray, ws[j])
         IN  IF r.hit /\ (~best.found \/ ~FLess(best.tr_hit, r.tr))
             THEN ScanWallsLastWins(ray, ws, j + 1,
                                   [found |-> TRUE, j_hit |-> j,
                                    tr_hit |-> r.tr, tw_hit |-> r.tw])
             ELSE ScanWallsLastWins(ray, ws, j + 1, best)

\* The inner loop of CalcRayHits over walls j..Len(ws): best is
\* (j_hit, tr_hit, tw_hit); found = FALSE stands for tr_hit still being
\* numeric_limits<double>::max().
RECURSIVE ScanWalls(_, _, _, _)
ScanWalls(ray, ws, j, best) ==
    IF j > Len(ws) THEN best
    ELSE LET r == Intersect(ray, ws[j])
         IN  IF r.hit /\ (~best.found \/ FLess(r.tr, best.tr_hit))
             THEN ScanWalls(ray, ws, j + 1,
                            [found |-> TRUE, j_hit |-> j,
                             tr_hit |-> r.tr, tw_hit |-> r.tw])
             ELSE ScanWalls(ray, ws, j + 1, best)

NoHit == [found |-> FALSE, j_hit |-> 0, tr_hit |-> Frac(0, 1), tw_hit |-> Frac(0, 1)]

NearestWall(ray, ws) == ScanWalls(ray, ws, 1, NoHit)

\* The RayHit pushed for a ray whose scan found wall j_hit.
RayHitOf(p, ray, ws, best) ==
    LET w == ws[best.j_hit]
    IN  [dist |-> Frac(RoundDiv(best.tr_hit.n * Cos(AngleSub(ray.angle, p.heading))
                                    * PosDen,
                                best.tr_hit.d * Scale),
                       PosDen),
         wall_x |-> Mix(w.x1, w.x2, best.tw_hit),
         wall_y |-> Mix(w.y1, w.y2, best.tw_hit)]

\* The outer loop of CalcRayHits over rays i..Len(rays).
RECURSIVE HitsFrom(_, _, _)
HitsFrom(p, ws, i) ==
    IF i > Len(p.rays) THEN <<>>
    ELSE LET best == NearestWall(p.rays[i], ws)
         IN  (IF best.found THEN <<RayHitOf(p, p.rays[i], ws, best)>> ELSE <<>>)
             \o HitsFrom(p, ws, i + 1)

\* Player::CalcRayHits
CalcRayHits(p, ws) == HitsFrom(p, ws, 1)

\* -------------------------------------------------------------------- Color
\* Color::Gray(uint8_t w): the gray level 0..255 of the colour returned.
Gray(w) == Min((2 * w * 255 + 100) \div 200, 255)

\* -------------------------------------------------------------------- Views
\* View::View(offset, width, height)
View(offset, width, height) ==
    [x |-> offset, y |-> IntDiv(ScreenHeight - height, 2),
     width |-> width, height |-> height]

\* Conversion double -> uint8_t of a value already truncated to t.  Outside
\* 0..255 the conversion has no defined result; ub names what the build
\* does with it: "wrap" keeps the low byte, "saturate" clamps.
UBOutcomes == {"wrap", "saturate"}

ToUint8(t, ub) ==
    IF 0 <= t /\ t <= 255 THEN t
    ELSE IF ub = "wrap" THEN t % 256
    ELSE IF t < 0 THEN 0 ELSE 255

\* One iteration of the loop of View3D::Draw: the RectFill call made for
\* ray_hits[i] (i counted from 0); b is the value given to Color::Gray.
Strip(v, hits, i, mw, ub) ==
    LET hit == hits[i + 1]
        w == v.width \div Len(hits)
        h == MapInt(hit.dist, 0, mw, v.height, 0)
        d2 == [n |-> hit.dist.n * hit.dist.n, d |-> hit.dist.d * hit.dist.d]
        b == ToUint8(MapInt(d2, 0, mw * mw, 100, 0), ub)
    IN  [x |-> v.x + i * w, y |-> v.y + IntDiv(v.height - h, 2),
         w |-> w, h |-> h, b |-> b, c |-> Gray(b)]

\* View3D::Draw: the sequence of RectFill calls.
View3DDraw(v, hits, mw, ub) ==
    [k \in 1..Len(hits) |-> Strip(v, hits, k - 1, mw, ub)]

\* Scene::InitViews, the 3D view: View3D(w, w * 2, h * 2) for a map mw x mh,
\* with w = ScreenWidth / 3.0, scale = w / mw, h = mh * scale.
InitView3D(mw, mh) ==
    View(ScreenWidth \div 3, (2 * ScreenWidth) \div 3,
         (2 * mh * ScreenWidth) \div (3 * mw))

\* -------------------------------------------------------------------- Scene
\* Scene::InitWalls, the four boundary walls.
BoundaryWalls(mw, mh) ==
    LET w == mw - 1
        h == mh - 1
    IN  <<Wall(0, 0, 0, h), Wall(0, 0, w, 0), Wall(w, 0, w, h), Wall(0, h, w, h)>>

\* Interior walls rand() can produce (every coordinate below map size - 1):
\* an anti-diagonal next to the map centre, in its two orientations.
InnerChoices ==
    LET cx == MapWidth \div 2
        cy == MapHeight \div 2
    IN  <<Wall(cx, cy - 1, cx - 1, cy), Wall(cx - 1, cy, cx, cy - 1)>>

\* The interior walls of the run: the two orientations in turn, starting
\* with orientation k.
InnerWalls(k) == [i \in 1..NumInner |-> InnerChoices[((i + k) % 2) + 1]]

\* Player::heading is never initialised and Player::Player reads it: the
\* finite values, in degrees, it is taken to hold.
InitHeadings == {30, 210}

Zero == [n |-> 0, d |-> 1]

\* Scene::Move translating before it rotates.
SceneMoveTranslateFirst(p, ws, hits, da_, dd_) ==
    LET can == dd_.n # 0 /\ CanMove(p, dd_, MapWidth, MapHeight)
        p1 == IF can THEN PlayerMove(p, dd_) ELSE p
        p2 == IF da_.n # 0 THEN PlayerRotate(p1, da_) ELSE p1
    IN  [neo |-> p2, moved |-> can,
         ray_hits |-> IF da_.n # 0 \/ dd_.n # 0
                      THEN CalcRayHits(p2, ws) ELSE hits]

\* Scene::Move without the CanMove test.
SceneMoveUnchecked(p, ws, hits, da_, dd_) ==
    LET p1 == IF da_.n # 0 THEN PlayerRotate(p, da_) ELSE p
        can == dd_.n # 0
        p2 == IF can THEN PlayerMove(p1, dd_) ELSE p1
    IN  [neo |-> p2, moved |-> can,
         ray_hits |-> IF da_.n # 0 \/ dd_.n # 0
                      THEN CalcRayHits(p2, ws) ELSE hits]

\* Scene::Move refreshing the hit list only after a translation request.
SceneMoveStaleOnTurn(p, ws, hits, da_, dd_) ==
    LET p1 == IF da_.n # 0 THEN PlayerRotate(p, da_) ELSE p
        can == dd_.n # 0 /\ CanMove(p1, dd_, MapWidth, MapHeight)
        p2 == IF can THEN PlayerMove(p1, dd_) ELSE p1
    IN  [neo |-> p2, moved |-> can,
         ray_hits |-> IF dd_.n # 0 THEN CalcRayHits(p2, ws) ELSE hits]

\* Scene::Move(da, dd): the Player after the call, whether the translation
\* was made, and the hit list after the call.
SceneMove(p, ws, hits, da_, dd_) ==
    LET p1 == IF da_.n # 0 THEN PlayerRotate(p, da_) ELSE p
        can == dd_.n # 0 /\ CanMove(p1, dd_, MapWidth, MapHeight)
        p2 == IF can THEN PlayerMove(p1, dd_) ELSE p1
    IN  [neo |-> p2, moved |-> can,
         ray_hits |-> IF da_.n # 0 \/ dd_.n # 0
                      THEN CalcRayHits(p2, ws) ELSE hits]

\* --------------------------------------------------------------------- keys
Keys == {"LEFT", "RIGHT", "UP", "DOWN"}

\* KeyDown(key, da, dd)
KeyDown(key, da_, dd_) ==
    CASE key = "LEFT"  -> [da |-> [n |-> -1, d |-> 2], dd |-> dd_]
      [] key = "RIGHT" -> [da |-> [n |-> 1, d |-> 2], dd |-> dd_]
      [] key = "UP"    -> [da |-> da_, dd |-> [n |-> 1, d |-> 2]]
      [] key = "DOWN"  -> [da |-> da_, dd |-> [n |-> -1, d |-> 2]]

\* KeyUp zeroing the axis of the key whatever its sign.
KeyUpAlwaysZero(key, da_, dd_) ==
    CASE key = "LEFT"  -> [da |-> Zero, dd |-> dd_]
      [] key = "RIGHT" -> [da |-> Zero, dd |-> dd_]
      [] key = "UP"    -> [da |-> da_, dd |-> Zero]
      [] key = "DOWN"  -> [da |-> da_, dd |-> Zero]

\* KeyUp(key, da, dd)
KeyUp(key, da_, dd_) ==
    CASE key = "LEFT"  -> [da |-> IF da_.n < 0 THEN Zero ELSE da_, dd |-> dd_]
      [] key = "RIGHT" -> [da |-> IF da_.n > 0 THEN Zero ELSE da_, dd |-> dd_]
      [] key = "UP"    -> [da |-> da_, dd |-> IF dd_.n > 0 THEN Zero ELSE dd_]
      [] key = "DOWN"  -> [da |-> da_, dd |-> IF dd_.n < 0 THEN Zero ELSE dd_]

\* -------------------------------------------------------------------- state
VARIABLES
    walls,      \* Scene::walls
    neo,        \* Scene::neo
    scr,        \* Scene::scr
    ray_hits,   \* Scene::ray_hits
    moved,      \* whether the last Scene::Move made its translation
    da, dd,     \* main's deltas
    stop,       \* main's stop flag
    event,      \* the SDL_Event last polled
    held,       \* keys physically down (the keyboard's state)
    pc,         \* position in main's loop: "poll", "draw" or "done"
    frames,     \* frames completed
    polled,     \* events handled so far
    strips      \* RectFill calls of the last View3D::Draw

vars == <<walls, neo, scr, ray_hits, moved, da, dd, stop, event, held, pc,
          frames, polled, strips>>

\* Scene::Scene and the first lines of main.
Init ==
    /\ \E k \in {0, 1} :
          walls = BoundaryWalls(MapWidth, MapHeight) \o InnerWalls(k)
    /\ \E h0 \in InitHeadings :
          neo = Player(MapWidth \div 2, MapHeight \div 2,
                       AngleOfDeg([n |-> h0, d |-> 1]))
    /\ scr = InitView3D(MapWidth, MapHeight)
    /\ ray_hits = CalcRayHits(neo, walls)
    /\ moved = FALSE
    /\ da = Zero
    /\ dd = Zero
    /\ stop = FALSE
    /\ event = [type |-> "none", key |-> "none"]
    /\ held = {}
    /\ pc = "poll"
    /\ frames = 0
    /\ polled = 0
    /\ strips = <<>>

\* SDL_PollEvent returns SDL_KEYDOWN for a key that was up, as one of the
\* first budget events.
PollKeyDown(k, budget) ==
    /\ pc = "poll"
    /\ polled < budget
    /\ polled' = polled + 1
    /\ k \notin held
    /\ held' = held \cup {k}
    /\ event' = [type |-> "keydown", key |-> k]
    /\ da' = KeyDown(k, da, dd).da
    /\ dd' = KeyDown(k, da, dd).dd
    /\ UNCHANGED <<walls, neo, scr, ray_hits, moved, stop, pc, frames, strips>>

\* SDL_PollEvent returns SDL_KEYUP for a key that was down, as one of the
\* first budget events.
PollKeyUp(k, budget) ==
    /\ pc = "poll"
    /\ polled < budget
    /\ polled' = polled + 1
    /\ k \in held
    /\ held' = held \ {k}
    /\ event' = [type |-> "keyup", key |-> k]
    /\ da' = KeyUp(k, da, dd).da
    /\ dd' = KeyUp(k, da, dd).dd
    /\ UNCHANGED <<walls, neo, scr, ray_hits, moved, stop, pc, frames, strips>>

KeyDownEvent(k) == PollKeyDown(k, MaxEvents)

KeyUpEvent(k) == PollKeyUp(k, MaxEvents)

\* SDL_PollEvent returns SDL_QUIT.
QuitEvent ==
    /\ pc = "poll"
    /\ polled < MaxEvents
    /\ polled' = polled + 1
    /\ ~stop
    /\ stop' = TRUE
    /\ event' = [type |-> "quit", key |-> "none"]
    /\ UNCHANGED <<walls, neo, scr, ray_hits, moved, da, dd, held, pc, frames, strips>>

\* SDL_PollEvent returns 0: Scene.Move(da, dd).
MoveStep ==
    /\ pc = "poll"
    /\ frames < MaxFrames
    /\ LET r == SceneMove(neo, walls, ray_hits, da, dd)
       IN  /\ neo' = r.neo
           /\ moved' = r.moved
           /\ ray_hits' = r.ray_hits
    /\ pc' = "draw"
    /\ UNCHANGED <<walls, scr, da, dd, stop, event, held, frames, polled, strips>>

\* Screen.Clear(); Scene.Draw(); Screen.Update(); and the loop test.  The
\* next iteration declares a fresh SDL_Event.
DrawStep ==
    /\ pc = "draw"
    /\ \E ub \in UBOutcomes : strips' = View3DDraw(scr, ray_hits, MapWidth, ub)
    /\ frames' = frames + 1
    /\ pc' = IF stop THEN "done" ELSE "poll"
    /\ event' = [type |-> "none", key |-> "none"]
    /\ UNCHANGED <<walls, neo, scr, ray_hits, moved, da, dd, stop, held, polled>>

Next ==
    \/ \E k \in Keys : KeyDownEvent(k)
    \/ \E k \in Keys : KeyUpEvent(k)
    \/ QuitEvent
    \/ MoveStep
    \/ DrawStep

Spec == Init /\ [][Next]_vars

\* =============================================================== properties
RayIdx == 1..Len(neo.rays)

WallIdx == 1..Len(walls)

\* The point O + tr * D of a ray, one coordinate: o the origin's coordinate
\* (units of 1/PosDen), c the direction's component (units of 1/Scale).
RayPoint(o, c, tr) ==
    Frac(o * tr.d * Scale + tr.n * c * PosDen, PosDen * tr.d * Scale)

\* The determinant of the system tr * D - tw * (P2 - P1) = P1 - O.
Det(ray, wall) ==
    LET D == Vector2(ray.angle)
    IN  D.x * (wall.y2 - wall.y1) - D.y * (wall.x2 - wall.x1)

AgreesWithGeometry(ray, wall) ==
    LET r == Intersect(ray, wall)
        D == Vector2(ray.angle)
    IN  IF Det(ray, wall) = 0 THEN ~r.hit
        ELSE /\ r.set
             /\ RayPoint(ray.x, D.x, r.tr) = Mix(wall.x1, wall.x2, r.tw)
             /\ RayPoint(ray.y, D.y, r.tr) = Mix(wall.y1, wall.y2, r.tw)
             /\ r.hit <=> /\ FLess(Frac(0, 1), r.tw)
                          /\ FLess(r.tw, Frac(1, 1))
                          /\ FLess(Frac(0, 1), r.tr)

\* C1: in every frame, for every ray of the fan that was scanned and every
\* wall, Intersect returns false when the determinant of the ray/wall
\* system is zero; otherwise the tw and tr it computes solve
\* O + tr * D = P1 + tw * (P2 - P1) in both coordinates and it returns true
\* exactly when 0 < tw < 1 and tr > 0.
C1_IntersectAgrees ==
    pc = "draw" =>
        \A i \in RayIdx : \A j \in WallIdx :
            AgreesWithGeometry(neo.rays[i], walls[j])

\* A frame in which the caster has moved and the fan holds an accepted
\* pair, a parallel pair and a pair rejected with a non-zero determinant.
C1_Witness ==
    /\ pc = "draw" /\ moved
    /\ \E i \in RayIdx : \E j \in WallIdx : Intersect(neo.rays[i], walls[j]).hit
    /\ \E i \in RayIdx : \E j \in WallIdx : Det(neo.rays[i], walls[j]) = 0
    /\ \E i \in RayIdx : \E j \in WallIdx :
          /\ Det(neo.rays[i], walls[j]) # 0
          /\ ~Intersect(neo.rays[i], walls[j]).hit

\* Walls that Intersect accepts for a ray.
Accepted(ray) == {j \in WallIdx : Intersect(ray, walls[j]).hit}

\* Rays of the fan with an accepted wall.
HitRays == {i \in RayIdx : Accepted(neo.rays[i]) # {}}

\* Number of rays before ray i, i included, that are in the set rays.
Rank(rays, i) == Cardinality({k \in rays : k <= i})

\* C2: in every frame, for every ray, the scan finds a wall exactly when
\* Intersect accepts one; the wall found has the least t_ray among the
\* accepted walls and the lowest index among those with that t_ray, and the
\* RayHit recorded for the ray lies on that wall at its t_wall.
C2_NearestLowestIndex ==
    pc = "draw" =>
        LET hitrays == HitRays
        IN  \A i \in RayIdx :
               LET ray == neo.rays[i]
                   best == NearestWall(ray, walls)
                   acc == Accepted(ray)
               IN  /\ best.found <=> acc # {}
                   /\ acc # {} =>
                        LET r == Intersect(ray, walls[best.j_hit])
                            w == walls[best.j_hit]
                            rec == ray_hits[Rank(hitrays, i)]
                        IN  /\ best.j_hit \in acc
                            /\ best.tr_hit = r.tr /\ best.tw_hit = r.tw
                            /\ \A k \in acc :
                                 LET rk == Intersect(ray, walls[k])
                                 IN  /\ ~FLess(rk.tr, r.tr)
                                     /\ rk.tr = r.tr => best.j_hit <= k
                            /\ rec.wall_x = Mix(w.x1, w.x2, r.tw)
                            /\ rec.wall_y = Mix(w.y1, w.y2, r.tw)

\* A frame with a ray for which two different walls are accepted at the
\* same, least t_ray.
C2_Witness ==
    /\ pc = "draw"
    /\ \E i \in RayIdx : \E j, k \in WallIdx :
          LET ray == neo.rays[i]
          IN  /\ j < k /\ walls[j] # walls[k]
              /\ {j, k} \subseteq Accepted(ray)
              /\ Intersect(ray, walls[j]).tr = Intersect(ray, walls[k]).tr
              /\ NearestWall(ray, walls).j_hit = j

\* The rounded target of a translation dd_ of Player p.
TargetX(p, dd_) == RoundDiv(p.x + Step(Vector2(p.heading).x, dd_), PosDen)

TargetY(p, dd_) == RoundDiv(p.y + Step(Vector2(p.heading).y, dd_), PosDen)

InsideMargin(nx, ny) ==
    /\ 1 <= nx /\ nx <= MapWidth - 2
    /\ 1 <= ny /\ ny <= MapHeight - 2

\* C3: a Scene::Move step with dd # 0 translates the caster exactly when
\* the rounded target (taken along the heading the call leaves) is inside
\* the margin, and then by dir * dd; otherwise the position and every ray
\* origin are unchanged.
C3_MoveIffInsideMargin ==
    [][(pc = "poll" /\ pc' = "draw" /\ dd.n # 0) =>
         LET h == [neo EXCEPT !.heading = neo'.heading]
             dir == Vector2(neo'.heading)
         IN  IF InsideMargin(TargetX(h, dd), TargetY(h, dd))
             THEN /\ moved'
                  /\ neo'.x = neo.x + Step(dir.x, dd)
                  /\ neo'.y = neo.y + Step(dir.y, dd)
             ELSE /\ ~moved'
                  /\ neo'.x = neo.x /\ neo'.y = neo.y
                  /\ \A i \in RayIdx :
                       /\ neo'.rays[i].x = neo.rays[i].x
                       /\ neo'.rays[i].y = neo.rays[i].y]_vars

\* A translation was requested and rejected: the target is outside the
\* margin and the caster is where an earlier, accepted step left it.
C3_Witness ==
    /\ pc = "draw" /\ dd.n # 0 /\ ~moved
    /\ ~InsideMargin(TargetX(neo, dd), TargetY(neo, dd))
    /\ neo.x # Coord(MapWidth \div 2)

\* C4: the caster is never on or outside the boundary walls and its rounded
\* position is inside the margin; every ray starts at the caster.
C4_InsideMap ==
    /\ 0 < neo.x /\ neo.x < Coord(MapWidth - 1)
    /\ 0 < neo.y /\ neo.y < Coord(MapHeight - 1)
    /\ InsideMargin(RoundDiv(neo.x, PosDen), RoundDiv(neo.y, PosDen))
    /\ \A i \in RayIdx : neo.rays[i].x = neo.x /\ neo.rays[i].y = neo.y

\* The caster has walked from the centre to within one unit of a boundary
\* wall, and a further step has been rejected.
C4_Witness ==
    /\ pc = "draw" /\ dd.n # 0 /\ ~moved
    /\ \/ neo.x < Coord(1) \/ neo.y < Coord(1)
       \/ neo.x > Coord(MapWidth - 2) \/ neo.y > Coord(MapHeight - 2)

\* ------------------------------------------- the event loop on its own
\* The inner loop of main, while (SDL_PollEvent(&event)), over a longer
\* burst of key events than Spec explores, before the first Scene::Move.
MaxKeyEvents == 3

KeysPress(k) == PollKeyDown(k, MaxKeyEvents)

KeysRelease(k) == PollKeyUp(k, MaxKeyEvents)

KeysNext ==
    \/ \E k \in Keys : KeysPress(k)
    \/ \E k \in Keys : KeysRelease(k)

SpecKeys == Init /\ [][KeysNext]_vars

\* C5: whenever a turn key is held the turn delta is non-zero, and whenever
\* a move key is held the move delta is non-zero.
C5_HeldKeyHasDelta ==
    /\ held \cap {"LEFT", "RIGHT"} # {} => da.n # 0
    /\ held \cap {"UP", "DOWN"} # {} => dd.n # 0

\* The sign of the delta a key sets.
KeySign(k) == IF k \in {"LEFT", "DOWN"} THEN -1 ELSE 1

\* C6: a key-up zeroes the delta of the key's axis only when that delta has
\* the key's sign and leaves it unchanged otherwise; it never changes the
\* delta of the other axis.
C6_KeyUpSignGuarded ==
    [][(event'.type = "keyup" /\ polled' = polled + 1) =>
         LET k == event'.key
         IN  IF k \in {"LEFT", "RIGHT"}
             THEN /\ dd' = dd
                  /\ da' = IF da.n * KeySign(k) > 0 THEN Zero ELSE da
             ELSE /\ da' = da
                  /\ dd' = IF dd.n * KeySign(k) > 0 THEN Zero ELSE dd]_vars

\* A key released while the opposite key of its axis is in effect: the
\* delta of the axis keeps the opposite key's sign.
C6_Witness ==
    /\ event.type = "keyup"
    /\ \/ event.key = "LEFT" /\ "RIGHT" \in held /\ da.n > 0
       \/ event.key = "RIGHT" /\ "LEFT" \in held /\ da.n < 0
       \/ event.key = "UP" /\ "DOWN" \in held /\ dd.n < 0
       \/ event.key = "DOWN" /\ "UP" \in held /\ dd.n > 0

\* C7: when Scene::Draw is about to run, ray_hits is the hit list of the
\* caster's current position and heading.
C7_HitsFresh ==
    pc = "draw" => ray_hits = CalcRayHits(neo, walls)

\* A frame with a turn and a rejected move, about to be drawn, in which the
\* turn has changed the hit list.
C7_Witness ==
    /\ pc = "draw" /\ da.n # 0 /\ dd.n # 0 /\ ~moved
    /\ ray_hits # CalcRayHits(PlayerRotate(neo, [n |-> -da.n, d |-> da.d]), walls)

\* The strip View3D::Draw would have to draw for hit rec: its height.
StripHeight(rec) == MapInt(rec.dist, 0, MapWidth, scr.height, 0)

\* C8: after a frame is drawn, every ray i of the fan that recorded a hit
\* has its strip at x offset (i - 1) * (viewport width / ray count), one
\* column wide, and no strip covers the column of a ray without a hit.
C8_ColumnPerRay ==
    (pc # "draw" /\ frames > 0) =>
        LET colw == scr.width \div NumRays
        IN  \A i \in RayIdx :
               LET col == scr.x + (i - 1) * colw
               IN  IF Accepted(neo.rays[i]) = {}
                   THEN \A k \in 1..Len(strips) :
                           \/ strips[k].x + strips[k].w <= col
                           \/ col + colw <= strips[k].x
                   ELSE \E k \in 1..Len(strips) :
                           /\ strips[k].x = col
                           /\ strips[k].w = colw
                           /\ strips[k].h = StripHeight(ray_hits[Rank(HitRays, i)])

\* ------------------------------------------------ View3D::Draw on its own
\* View3D::Draw as a function of the hit list, with the map and the
\* viewport of the program (map_width x map_height, InitViews): the hit
\* list holds ViewHits hits whose distances are drawn from ViewDists.
ViewHits == 2

ViewDistStep == 20

\* The largest whole distance a hit can have: the caster's rounded position
\* is at least 1, so it is more than 1/2 from the walls at 0, and the
\* farthest wall point is the corner (map_width - 1, map_height - 1).
ViewMaxDist ==
    LET dx == 2 * (map_width - 1) - 1
        dy == 2 * (map_height - 1) - 1
    IN  CHOOSE r \in 0..(map_width + map_height) :
           4 * r * r <= dx * dx + dy * dy
           /\ dx * dx + dy * dy < 4 * (r + 1) * (r + 1)

ViewDists ==
    {k * ViewDistStep : k \in 0..(ViewMaxDist \div ViewDistStep)}
        \cup {map_width - 1, map_width, map_width + 1, ViewMaxDist}

\* A RayHit at distance d; View3D::Draw reads only dist.
RayHitAt(d) == [dist |-> Frac(d, 1), wall_x |-> Frac(0, 1), wall_y |-> Frac(0, 1)]

ViewInit ==
    /\ walls = BoundaryWalls(map_width, map_height)
    /\ neo = Player(map_width \div 2, map_height \div 2, 0)
    /\ scr = InitView3D(map_width, map_height)
    /\ ray_hits \in [1..ViewHits -> {RayHitAt(d) : d \in ViewDists}]
    /\ moved = FALSE /\ da = Zero /\ dd = Zero /\ stop = FALSE
    /\ event = [type |-> "none", key |-> "none"]
    /\ held = {}
    /\ pc = "draw"
    /\ frames = 0 /\ polled = 0
    /\ strips = <<>>

\* Scene::Draw -> View3D::Draw(ray_hits, map_width).
ViewDraw ==
    /\ pc = "draw"
    /\ \E ub \in UBOutcomes : strips' = View3DDraw(scr, ray_hits, map_width, ub)
    /\ frames' = frames + 1
    /\ pc' = "done"
    /\ UNCHANGED <<walls, neo, scr, ray_hits, moved, da, dd, stop, event, held, polled>>

ViewNext == ViewDraw

SpecView == ViewInit /\ [][ViewNext]_vars

\* C9: once the hits are drawn, a hit at distance 0 has a strip of the full
\* viewport height, a hit at distance >= map_width a strip of height
\* exactly 0, no strip has a negative height, and a farther hit never has
\* a higher strip than a nearer one.
C9_HeightMapping ==
    pc = "done" =>
        \A i \in 1..Len(strips) :
            /\ ray_hits[i].dist.n = 0 => strips[i].h = scr.height
            /\ ~FLess(ray_hits[i].dist, Frac(map_width, 1)) => strips[i].h = 0
            /\ strips[i].h >= 0
            /\ \A j \in 1..Len(strips) :
                  FLess(ray_hits[i].dist, ray_hits[j].dist)
                      => strips[i].h >= strips[j].h

\* C10: once the hits are drawn, every gray level passed to Color::Gray is
\* in 0..100 and a farther hit is never drawn brighter than a nearer one.
C10_ShadeInRange ==
    pc = "done" =>
        \A i \in 1..Len(strips) :
            /\ strips[i].b \in 0..100
            /\ \A j \in 1..Len(strips) :
                  FLess(ray_hits[i].dist, ray_hits[j].dist)
                      => strips[i].c >= strips[j].c

\* ------------------------------------- the boundary rectangle on its own
\* Player::CalcRayHits against the four boundary walls alone, for a caster
\* that Player::Move has brought to a point of a half-unit grid strictly
\* inside the rectangle and Player::Rotate to one of RectHeadings evenly
\* spaced headings.
RectHeadings == 24

\* The Player at (px, py), in units of 1/PosDen, with heading h0.
PlayerAt(px, py, h0) ==
    LET p == Player(MapWidth \div 2, MapHeight \div 2, h0)
    IN  [p EXCEPT !.x = px, !.y = py,
                  !.rays = [i \in 1..Len(p.rays) |-> RayMoveTo(p.rays[i], px, py)]]

RectInit ==
    /\ walls = BoundaryWalls(MapWidth, MapHeight)
    /\ \E kx \in 1..(2 * (MapWidth - 1) - 1) :
       \E ky \in 1..(2 * (MapHeight - 1) - 1) :
       \E kh \in 0..(RectHeadings - 1) :
          neo = PlayerAt(kx * (PosDen \div 2), ky * (PosDen \div 2),
                         kh * (FullCircle \div RectHeadings))
    /\ scr = InitView3D(MapWidth, MapHeight)
    /\ ray_hits = <<>>
    /\ moved = FALSE /\ da = Zero /\ dd = Zero /\ stop = FALSE
    /\ event = [type |-> "none", key |-> "none"]
    /\ held = {}
    /\ pc = "poll"
    /\ frames = 0 /\ polled = 0
    /\ strips = <<>>

\* ray_hits = neo.CalcRayHits(walls)
RectScan ==
    /\ pc = "poll"
    /\ ray_hits' = CalcRayHits(neo, walls)
    /\ pc' = "draw"
    /\ UNCHANGED <<walls, neo, scr, moved, da, dd, stop, event, held, frames,
                   polled, strips>>

RectNext == RectScan

SpecRect == RectInit /\ [][RectNext]_vars

\* The four boundary walls are the first four walls of the Scene.
BoundaryAccepted(ray) == {j \in 1..4 : Intersect(ray, walls[j]).hit}

\* The ray points at a corner of the boundary rectangle: the corner is on
\* the ray's line (cross product 0), ahead of the origin (dot product > 0).
ThroughCorner(ray) ==
    LET D == Vector2(ray.angle)
    IN  \E cx \in {0, MapWidth - 1} : \E cy \in {0, MapHeight - 1} :
           LET vx == Coord(cx) - ray.x
               vy == Coord(cy) - ray.y
           IN  /\ D.x * vy - D.y * vx = 0
               /\ D.x * vx + D.y * vy > 0

\* C11: for a caster strictly inside the boundary rectangle, every ray of
\* the scanned fan has at most one boundary wall accepted by Intersect, and
\* it has none exactly when it passes through a corner of the rectangle.
C11_OneBoundaryWall ==
    pc = "draw" =>
        \A i \in RayIdx :
            LET acc == BoundaryAccepted(neo.rays[i])
            IN  /\ Cardinality(acc) <= 1
                /\ acc = {} <=> ThroughCorner(neo.rays[i])

\* A scanned fan, off the centre of the map, with a ray through a corner
\* (no wall accepted) and a ray along a map axis (one wall accepted).
C11_Witness ==
    /\ pc = "draw"
    /\ neo.x # neo.y
    /\ \E i \in RayIdx : /\ ThroughCorner(neo.rays[i])
                         /\ BoundaryAccepted(neo.rays[i]) = {}
    /\ \E i \in RayIdx : /\ Vector2(neo.rays[i].angle).y = 0
                         /\ Cardinality(BoundaryAccepted(neo.rays[i])) = 1

\* ------------------------------------------ the empty 320 x 240 map
\* Player::CalcRayHits in the program's map with the boundary walls alone,
\* for a caster heading 0 degrees at a whole-number position inside the
\* margin: every EndStep-th position, the centre and the far margin.
EndStep == 32

EndXs ==
    {1 + k * EndStep : k \in 0..((map_width - 3) \div EndStep)}
        \cup {map_width \div 2, map_width - 2}

EndYs ==
    {1 + k * EndStep : k \in 0..((map_height - 3) \div EndStep)}
        \cup {map_height \div 2, map_height - 2}

EndInit ==
    /\ walls = BoundaryWalls(map_width, map_height)
    /\ \E x \in EndXs : \E y \in EndYs : neo = Player(x, y, 0)
    /\ scr = InitView3D(map_width, map_height)
    /\ ray_hits = <<>>
    /\ moved = FALSE /\ da = Zero /\ dd = Zero /\ stop = FALSE
    /\ event = [type |-> "none", key |-> "none"]
    /\ held = {}
    /\ pc = "poll"
    /\ frames = 0 /\ polled = 0
    /\ strips = <<>>

\* ray_hits = neo.CalcRayHits(walls)
EndScan == RectScan

EndNext == EndScan

SpecEnd == EndInit /\ [][EndNext]_vars

\* C12: in the empty 320 x 240 map, for a caster at (x, y) heading 0, the
\* RayHit recorded for the ray at offset 0 is on the right boundary wall at
\* (319, y) and its distance is 319 - x.
C12_CentreRayHit ==
    pc = "draw" =>
        \A i \in RayIdx :
            neo.rays[i].angle = neo.heading =>
                LET best == NearestWall(neo.rays[i], walls)
                    rec == ray_hits[Rank(HitRays, i)]
                IN  /\ best.found
                    /\ walls[best.j_hit]
                         = Wall(map_width - 1, 0, map_width - 1, map_height - 1)
                    /\ rec.wall_x = Frac(map_width - 1, 1)
                    /\ rec.wall_y = Frac(neo.y, PosDen)
                    /\ rec.dist = Frac(Coord(map_width - 1) - neo.x, PosDen)

\* The caster at the centre (160, 120): the ray at offset 0 has recorded
\* the hit point (319, 120) at distance 159.
C12_Witness ==
    /\ pc = "draw"
    /\ neo.x = Coord(160) /\ neo.y = Coord(120) /\ neo.heading = 0
    /\ \E i \in RayIdx :
          /\ neo.rays[i].angle = neo.heading
          /\ ray_hits[Rank(HitRays, i)]
               = [dist |-> Frac(159, 1), wall_x |-> Frac(319, 1),
                  wall_y |-> Frac(120, 1)]

\* ------------------------------------------------- the fan and the turn
\* The fan of Player p is rigid: NumRays rays, ray i (counted from 0) at
\* -view_angle / 2 + i * view_angle / NumRays from the heading.  Both sides
\* are multiplied by 2 * NumRays.
FanRigid(p) ==
    /\ Len(p.rays) = NumRays
    /\ \A i \in 1..NumRays :
          2 * NumRays * (p.rays[i].angle - p.heading)
              = UnitsPerDeg * view_angle * (2 * (i - 1) - NumRays)

\* A turn of da_ degrees in angle units.
Turn(da_) == (da_.n * UnitsPerDeg) \div da_.d

\* C13: the fan is rigid before and after every step, and a Scene::Move
\* step changes the heading and the angle of every ray by the same da
\* (by nothing when da = 0, whether or not the caster is translated).
C13_FanRigid ==
    [][/\ FanRigid(neo) /\ FanRigid(neo')
       /\ (pc = "poll" /\ pc' = "draw") =>
            /\ neo'.heading = neo.heading + Turn(da)
            /\ \A i \in 1..NumRays :
                  neo'.rays[i].angle = neo.rays[i].angle + Turn(da)]_vars

\* A second frame in which the caster has turned and moved.
C13_Witness ==
    /\ pc = "draw" /\ frames >= 1
    /\ da.n # 0 /\ moved
    /\ FanRigid(neo)

\* C14: a Scene::Move step with da # 0 and dd # 0 leaves the heading turned
\* by da; the translation is made exactly when the rounded target along
\* the turned heading is inside the margin, and then along the turned
\* heading; when it is not made the position is unchanged and the turn is
\* kept.
C14_RotateThenTranslate ==
    [][(pc = "poll" /\ pc' = "draw" /\ da.n # 0 /\ dd.n # 0) =>
         LET h1 == neo.heading + Turn(da)
             dir == Vector2(h1)
             nx == neo.x + Step(dir.x, dd)
             ny == neo.y + Step(dir.y, dd)
         IN  /\ neo'.heading = h1
             /\ IF InsideMargin(RoundDiv(nx, PosDen), RoundDiv(ny, PosDen))
                THEN moved' /\ neo'.x = nx /\ neo'.y = ny
                ELSE ~moved' /\ neo'.x = neo.x /\ neo'.y = neo.y]_vars

\* A frame with a turn and a rejected translation, where the direction of
\* the heading before the turn differs from the direction after it.
C14_Witness ==
    /\ pc = "draw" /\ da.n # 0 /\ dd.n # 0 /\ ~moved
    /\ Vector2(neo.heading) # Vector2(neo.heading - Turn(da))

====
